---- MODULE Spec2Model ----
(***************************************************************************)
(* Clightd: the event dispatcher (main, main_poll, bus_cb, signal_cb,      *)
(* set_pollfd, close_mainp) and the frame-capture pipeline                 *)
(* (method_captureframes, capture_frames and its helpers) of               *)
(* src/src/main.c, as state machines.                                      *)
(*                                                                         *)
(* Spec        the daemon's life: startup, the poll loop, shutdown.        *)
(* FairSpec    the same with the fairness a running process has over its   *)
(*             own steps.                                                  *)
(* SpecCapture a sequence of capture requests, each run to its return.     *)
(***************************************************************************)
EXTENDS Integers, Sequences, FiniteSets, TLC

(***************************************************************************)
(* Bounds of the model.                                                    *)
(***************************************************************************)
\* positive results sd_bus_process may give in one bus_cb pass
MaxBurst == 2
\* wake sources whose descriptor creation may fail in set_pollfd
MaxCreateFail == 1
\* requests ask for -1 .. SmallCount frames, or for about MAX_CAPTURES
SmallCount == 3
\* the first MaxVaried frames of a request differ in brightness
MaxVaried == 1
\* capture requests in one behaviour
MaxRequests == 2
\* samples in one call of compute_avg_brightness
AvgMaxLen == 5

(***************************************************************************)
(* Program constants.                                                      *)
(***************************************************************************)
\* enum poll_idx, with GAMMA_PRESENT defined
BUS == 0
SIGNAL == 1
BRIGHT_SMOOTH == 2
GAMMA_SMOOTH == 3
WEBCAM_MON == 4
ALS_MON == 5
POLL_SIZE == 6
\* enum quit_codes
LEAVE_W_ERR == -1
SIGNAL_RCV == 1
\* <stdlib.h>
EXIT_SUCCESS == 0
EXIT_FAILURE == 1
\* <poll.h>: revents bits
POLLIN == 1
POLLERR == 8

\* <errno.h>
EPERM == 1
ENOENT == 2
EIO == 5
EACCES == 13
EBUSY == 16
EINVAL == 22
\* the errors open() is made to fail with: missing, permission denied, busy
OpenErrnos == {ENOENT, EACCES, EBUSY}
\* the errors an ioctl is made to fail with (never EINTR: xioctl repeats
\* the call on EINTR)
IoctlErrnos == {EIO, EINVAL}
\* the most frames one request may ask for (main.c:325)
MAX_CAPTURES == 20
\* <sys/mman.h>: (void *) -1
MAP_FAILED == -1
\* the address mmap gives the buffer, and the length the driver reports
MapAddr == 4096
BufLength == 38400
\* the format init() asks for
FmtWidth == 160
FmtHeight == 120

Sources == 0 .. (POLL_SIZE - 1)
\* the sources that are sockets (the bus connection, the two udev monitors):
\* poll can report an error condition on them without input
SocketSources == {BUS, WEBCAM_MON, ALS_MON}
\* the descriptors the process starts with: stdin, stdout, stderr
StdFds == {0, 1, 2}

VARIABLES
    \* ---- dispatcher (main.c:56-60 and the locals of main, main_poll, bus_cb)
    pc,          \* position of main()
    bus,         \* sd_bus *bus: FALSE is NULL
    bus_fd,      \* the descriptor of the bus connection; -1 when there is none
    udev,        \* struct udev *udev: "live" after udev_new, "released" after udev_unref
    quit,        \* static int quit
    main_p,      \* static struct pollfd main_p[POLL_SIZE]: [fd, revents]
    poll_r,      \* int r of main_poll
    poll_i,      \* int i of main_poll's for loop
    bus_r,       \* int r of bus_cb, by its sign: 1, 0, or -1 for any -errno
    bus_from,    \* who called bus_cb: "main" or "main_poll"
    bus_n,       \* positive results sd_bus_process gave in this bus_cb pass
    sig_pending, \* a SIGINT/SIGTERM is queued on the signalfd
    open_fds,    \* descriptors open in the process
    name_owned,  \* the service name is registered on the bus
    exit_status, \* value returned by main(); -1 before it returns
    \* ---- history of the dispatcher
    invoked,       \* handlers invoked in the current wake-up, in order
    ready_in,      \* sources poll reported with POLLIN in the current wake-up
    released,      \* release steps main() has run, in order
    close_log,     \* descriptors passed to close(), in order, with who closed
    startup_failed,\* connect, vtable installation or name request failed
    err_cause,     \* what set quit to LEAVE_W_ERR: "none", "bus", "poll"
    sig_seen,      \* a signal became pending while the loop was running
    \* ---- capture request (the locals of method_captureframes and
    \* capture_frames, and main.c:297-303)
    cpc,         \* position in method_captureframes / capture_frames
    num_captures,\* int num_captures as read from the message; 0 before
    state,       \* static struct state *state: FALSE is NULL
    st,          \* the struct state *state points to (tmp of capture_frames)
    frame_i,     \* int i of the frame loop
    avg_brightness, \* double avg_brightness, as <<numerator, denominator>>
    error,       \* int error of method_captureframes (*err of capture_frames)
    ret,         \* value method_captureframes returned; 0 before it returns
    ret_error,   \* sd_bus_error *ret_error: what was set in it
    reply,       \* the value replied with sd_bus_reply_method_return, or <<>>
    mapped,      \* the kernel holds a mapping made by this request
    heap,        \* the number of live calloc blocks
    streaming,   \* the device is streaming
    \* ---- history of the capture request
    looked_up,   \* get_udev_device was called
    sessions,    \* times state was pointed at a fresh session in this request
    req_fd,      \* the descriptor open() gave this request; -1 if none
    open_errno,  \* errno of the failed open(); 0 if it did not fail
    ops,         \* the calls made on the device and the memory, in order
    requests,    \* capture requests that have arrived so far
    \* ---- get_temp (part_000:71-103) and the temperature it is tried on
    gpc,         \* position in get_temp: "idle" when it is not running
    temp,        \* the temperature whose red and blue are handed to get_temp
    R,           \* const unsigned short R
    B,           \* const unsigned short B
    min_temp,    \* int min_temp
    max_temp,    \* int max_temp
    temperature, \* int temperature
    testR,       \* unsigned short testR
    testB,       \* unsigned short testB
    \* ---- history of get_temp
    bisected     \* the temperature the do-while loop ended with; 0 before

dvars == <<pc, bus, bus_fd, udev, quit, main_p, poll_r, poll_i, bus_r, bus_from, bus_n,
           sig_pending, open_fds, name_owned, exit_status, invoked, ready_in,
           released, close_log, startup_failed, err_cause, sig_seen>>

dvars_but_fds ==
         <<pc, bus, bus_fd, udev, quit, main_p, poll_r, poll_i, bus_r, bus_from, bus_n,
           sig_pending, name_owned, exit_status, invoked, ready_in,
           released, close_log, startup_failed, err_cause, sig_seen>>

dvars_but_quit ==
         <<pc, bus, bus_fd, udev, main_p, poll_r, poll_i, bus_r, bus_from, bus_n,
           sig_pending, open_fds, name_owned, exit_status, invoked, ready_in,
           released, close_log, startup_failed, err_cause, sig_seen>>

cvars == <<cpc, num_captures, state, st, frame_i, avg_brightness, error, ret,
           ret_error, reply, mapped, heap, streaming, looked_up, sessions,
           req_fd, open_errno, ops, requests>>

gvars == <<gpc, temp, R, B, min_temp, max_temp, temperature, testR, testB, bisected>>

vars == <<dvars, cvars, gvars>>

(***************************************************************************)
(* Helpers.                                                                *)
(***************************************************************************)
\* POSIX: a new descriptor is the lowest one not open
lowest_free(S) == CHOOSE n \in 0 .. (Cardinality(S)) : n \notin S /\ \A m \in 0 .. (n - 1) : m \in S

\* revents & POLLIN
HasPOLLIN(revents) == (revents \div POLLIN) % 2 = 1

\* a scan that goes through the ready sources whatever quit says
ScanGoesOn_whatever_quit == poll_i < POLL_SIZE /\ poll_r > 0

\* the while condition of main_poll's for loop (main.c:181)
ScanGoesOn == poll_i < POLL_SIZE /\ quit = 0 /\ poll_r > 0

\* a main_poll that only an error makes leave its loop
LoopGoesOn_until_error == quit # LEAVE_W_ERR

\* the while condition of main_poll (main.c:173)
LoopGoesOn == quit = 0

\* main_poll is running: between its entry and the failing while test
InLoop == pc \in {"loop", "scan"} \/ (pc = "bus_cb" /\ bus_from = "main_poll")

\* the for loop's first index (main.c:181)
scan_first == 0

\* struct state tmp = {0};
ZeroState == [quit |-> 0, width |-> 0, height |-> 0, device_fd |-> 0,
              buf_size |-> 0, brightness_values |-> <<>>, buffer |-> 0]

\* an sd_bus_error with nothing set
NoError == [name |-> "", code |-> 0]

\* no capture request is being served
CaptureIdle ==
    /\ cpc = "idle"
    /\ num_captures = 0
    /\ state = FALSE
    /\ st = ZeroState
    /\ frame_i = 0
    /\ avg_brightness = <<0, 1>>
    /\ error = 0
    /\ ret = 0
    /\ ret_error = NoError
    /\ reply = <<>>
    /\ mapped = FALSE
    /\ heap = 0
    /\ streaming = FALSE
    /\ looked_up = FALSE
    /\ sessions = 0
    /\ req_fd = -1
    /\ open_errno = 0
    /\ ops = <<>>
    /\ requests = 0

\* get_temp is not running
GammaIdle ==
    /\ gpc = "idle"
    /\ temp = 0
    /\ R = 0
    /\ B = 0
    /\ min_temp = 0
    /\ max_temp = 0
    /\ temperature = 0
    /\ testR = 0
    /\ testB = 0
    /\ bisected = 0

Init ==
    /\ CaptureIdle
    /\ GammaIdle
    /\ pc = "connect"
    /\ bus = FALSE
    /\ bus_fd = -1
    /\ udev = "live"
    /\ quit = 0
    /\ main_p = [k \in Sources |-> [fd |-> 0, revents |-> 0]]
    /\ poll_r = 0
    /\ poll_i = scan_first
    /\ bus_r = 0
    /\ bus_from = "main"
    /\ bus_n = 0
    /\ sig_pending = FALSE
    /\ open_fds = StdFds
    /\ name_owned = FALSE
    /\ exit_status = -1
    /\ invoked = <<>>
    /\ ready_in = {}
    /\ released = <<>>
    /\ close_log = <<>>
    /\ startup_failed = FALSE
    /\ err_cause = "none"
    /\ sig_seen = FALSE

(***************************************************************************)
(* main(): startup (main.c:226-260).                                       *)
(***************************************************************************)
\* r = sd_bus_default_system(&bus); if (r < 0) goto finish;
main_connect ==
    /\ pc = "connect"
    /\ \E ok \in BOOLEAN :
        IF ok
        THEN /\ bus' = TRUE
             /\ bus_fd' = lowest_free(open_fds)
             /\ open_fds' = open_fds \cup {lowest_free(open_fds)}
             /\ pc' = "add_vtable"
             /\ UNCHANGED startup_failed
        ELSE /\ pc' = "finish"
             /\ startup_failed' = TRUE
             /\ UNCHANGED <<bus, bus_fd, open_fds>>
    /\ UNCHANGED <<udev, quit, main_p, poll_r, poll_i, bus_r, bus_from, bus_n,
                   sig_pending, name_owned, exit_status, invoked, ready_in,
                   released, close_log, err_cause, sig_seen>>
    /\ UNCHANGED <<cvars, gvars>>

\* r = sd_bus_add_object_vtable(...); if (r < 0) goto finish;
main_add_vtable ==
    /\ pc = "add_vtable"
    /\ \E ok \in BOOLEAN :
        IF ok
        THEN pc' = "request_name" /\ UNCHANGED startup_failed
        ELSE pc' = "finish" /\ startup_failed' = TRUE
    /\ UNCHANGED <<bus, bus_fd, udev, quit, main_p, poll_r, poll_i, bus_r, bus_from, bus_n,
                   sig_pending, open_fds, name_owned, exit_status, invoked,
                   ready_in, released, close_log, err_cause, sig_seen>>
    /\ UNCHANGED <<cvars, gvars>>

\* r = sd_bus_request_name(bus, bus_interface, 0); if (r < 0) goto finish;
main_request_name ==
    /\ pc = "request_name"
    /\ \E ok \in BOOLEAN :
        IF ok
        THEN pc' = "set_pollfd" /\ name_owned' = TRUE /\ UNCHANGED startup_failed
        ELSE pc' = "finish" /\ startup_failed' = TRUE /\ UNCHANGED name_owned
    /\ UNCHANGED <<bus, bus_fd, udev, quit, main_p, poll_r, poll_i, bus_r, bus_from, bus_n,
                   sig_pending, open_fds, exit_status, invoked, ready_in,
                   released, close_log, err_cause, sig_seen>>
    /\ UNCHANGED <<cvars, gvars>>

(***************************************************************************)
(* set_pollfd (main.c:127-167).                                            *)
(***************************************************************************)
\* the descriptors of the sources k .. POLL_SIZE-1, created in this order with
\* `open` open before; the creation fails (-1) for the sources in `failing`
RECURSIVE CreateFds(_, _, _)
CreateFds(k, open, failing) ==
    IF k >= POLL_SIZE THEN <<>>
    ELSE IF k \in failing
         THEN <<-1>> \o CreateFds(k + 1, open, failing)
         ELSE <<lowest_free(open)>> \o CreateFds(k + 1, open \cup {lowest_free(open)}, failing)

\* main_p[BUS] takes the descriptor of the bus connection; signalfd,
\* timerfd_create (twice) and sensor_get_monitor (twice) make the others
set_pollfd ==
    /\ pc = "set_pollfd"
    /\ \E failing \in SUBSET (Sources \ {BUS}) :
        /\ Cardinality(failing) <= MaxCreateFail
        /\ LET made == CreateFds(SIGNAL, open_fds, failing)
           IN  /\ main_p' = [k \in Sources |->
                               [fd |-> IF k = BUS THEN bus_fd ELSE made[k],
                                revents |-> 0]]
               /\ open_fds' = open_fds \cup {made[k] : k \in {j \in 1 .. Len(made) : made[j] >= 0}}
    /\ pc' = "bus_cb"
    /\ bus_from' = "main"
    /\ UNCHANGED <<bus, bus_fd, udev, quit, poll_r, poll_i, bus_r, bus_n, sig_pending,
                   name_owned, exit_status, invoked, ready_in, released,
                   close_log, startup_failed, err_cause, sig_seen>>
    /\ UNCHANGED <<cvars, gvars>>

(***************************************************************************)
(* bus_cb (main.c:100-109): one action per call of sd_bus_process.        *)
(***************************************************************************)
\* the for loop's step (main.c:181)
scan_next(i) == i + 1

\* a scan that looks at the table from its last entry to its first
scanned_backwards(i) == POLL_SIZE - 1 - i

\* the entry of main_p the for loop looks at in its iteration i: main_p[i]
\* (main.c:182)
scanned(i) == i

\* where bus_cb returns to, and what its caller does next: main() enters
\* main_poll; main_poll's for loop does r-- and i++ (main.c:212, 181)
BusCbReturn ==
    /\ bus_n' = 0
    /\ IF bus_from = "main"
       THEN pc' = "loop" /\ UNCHANGED <<poll_r, poll_i>>
       ELSE pc' = "scan" /\ poll_r' = poll_r - 1 /\ poll_i' = scan_next(poll_i)

\* a bus_cb that processes one message and returns
bus_cb_once ==
    /\ pc = "bus_cb"
    /\ bus_r' = 1
    /\ BusCbReturn
    /\ UNCHANGED <<bus, bus_fd, udev, quit, main_p, bus_from,
                   sig_pending, open_fds, name_owned, exit_status, invoked,
                   ready_in, released, close_log, startup_failed, err_cause,
                   sig_seen>>
    /\ UNCHANGED <<cvars, gvars>>

\* r > 0: a message was processed; the do-while goes on
bus_cb_more ==
    /\ pc = "bus_cb"
    /\ bus_n < MaxBurst
    /\ bus_r' = 1
    /\ bus_n' = bus_n + 1
    /\ UNCHANGED <<pc, bus, bus_fd, udev, quit, main_p, poll_r, poll_i, bus_from,
                   sig_pending, open_fds, name_owned, exit_status, invoked,
                   ready_in, released, close_log, startup_failed, err_cause,
                   sig_seen>>
    /\ UNCHANGED <<cvars, gvars>>

\* r == 0: nothing left; bus_cb returns
bus_cb_empty ==
    /\ pc = "bus_cb"
    /\ bus_r' = 0
    /\ BusCbReturn
    /\ UNCHANGED <<bus, bus_fd, udev, quit, main_p, bus_from,
                   sig_pending, open_fds, name_owned, exit_status, invoked,
                   ready_in, released, close_log, startup_failed, err_cause,
                   sig_seen>>
    /\ UNCHANGED <<cvars, gvars>>

\* the value bus_cb gives quit when sd_bus_process fails (main.c:106)
bus_cb_quit == LEAVE_W_ERR

\* r < 0: quit = LEAVE_W_ERR; bus_cb returns
bus_cb_error ==
    /\ pc = "bus_cb"
    /\ bus_r' = -1
    /\ quit' = bus_cb_quit
    /\ err_cause' = "bus"
    /\ BusCbReturn
    /\ UNCHANGED <<bus, bus_fd, udev, main_p, bus_from,
                   sig_pending, open_fds, name_owned, exit_status, invoked,
                   ready_in, released, close_log, startup_failed, sig_seen>>
    /\ UNCHANGED <<cvars, gvars>>

(***************************************************************************)
(* The environment: a SIGINT or SIGTERM arrives.  set_pollfd blocked both  *)
(* and made the signalfd, so the signal queues on the descriptor.          *)
(***************************************************************************)
deliver_signal ==
    /\ pc \in {"bus_cb", "loop", "scan"}
    /\ main_p[SIGNAL].fd >= 0
    /\ ~sig_pending
    /\ sig_pending' = TRUE
    /\ sig_seen' = (sig_seen \/ (InLoop /\ quit = 0))
    /\ UNCHANGED <<pc, bus, bus_fd, udev, quit, main_p, poll_r, poll_i, bus_r,
                   bus_from, bus_n, open_fds, name_owned, exit_status, invoked,
                   ready_in, released, close_log, startup_failed, err_cause>>
    /\ UNCHANGED <<cvars, gvars>>

(***************************************************************************)
(* main_poll (main.c:172-216).                                             *)
(***************************************************************************)
\* the sources poll looks at: it ignores an entry whose fd is negative
Polled == {k \in Sources : main_p[k].fd >= 0}

\* while (!quit) { int r = poll(main_p, POLL_SIZE, -1); ... r > 0: poll reports
\* the sources in `input` with POLLIN and those in `failed` with POLLERR
\* alone, and returns how many it reported.  The signalfd is readable
\* exactly when a signal is queued on it.
poll_ready ==
    /\ pc = "loop"
    /\ LoopGoesOn
    /\ \E input \in SUBSET Polled :
       \E failed \in SUBSET ((Polled \cap SocketSources) \ input) :
        /\ input \cup failed # {}
        /\ (SIGNAL \in input) <=> sig_pending
        /\ main_p' = [k \in Sources |->
                        [main_p[k] EXCEPT !.revents =
                            IF k \in input THEN POLLIN
                            ELSE IF k \in failed THEN POLLERR ELSE 0]]
        /\ poll_r' = Cardinality(input \cup failed)
        /\ ready_in' = input
    /\ poll_i' = scan_first
    /\ pc' = "scan"
    /\ UNCHANGED <<bus, bus_fd, udev, quit, bus_r, bus_from, bus_n, sig_pending,
                   open_fds, name_owned, exit_status, invoked, released,
                   close_log, startup_failed, err_cause, sig_seen>>
    /\ UNCHANGED <<cvars, gvars>>

\* r == -1 with errno == EINTR: a signal other than the blocked ones
\* interrupted the wait; nothing was ready, so no signal is queued on the
\* signalfd.  The if does nothing and the for loop's test fails.
poll_eintr ==
    /\ pc = "loop"
    /\ LoopGoesOn
    /\ ~sig_pending
    /\ poll_r' = -1
    /\ pc' = "scan"
    /\ UNCHANGED <<bus, bus_fd, udev, quit, main_p, poll_i, bus_r, bus_from,
                   bus_n, sig_pending, open_fds, name_owned, exit_status,
                   invoked, ready_in, released, close_log, startup_failed,
                   err_cause, sig_seen>>
    /\ UNCHANGED <<cvars, gvars>>

\* the value main_poll gives quit when poll fails (main.c:178)
poll_error_quit == LEAVE_W_ERR

\* r == -1 with another errno: quit = LEAVE_W_ERR; the for loop's test fails
poll_error ==
    /\ pc = "loop"
    /\ LoopGoesOn
    /\ poll_r' = -1
    /\ quit' = poll_error_quit
    /\ err_cause' = "poll"
    /\ pc' = "scan"
    /\ UNCHANGED <<bus, bus_fd, udev, main_p, poll_i, bus_r, bus_from,
                   bus_n, sig_pending, open_fds, name_owned, exit_status,
                   invoked, ready_in, released, close_log, startup_failed,
                   sig_seen>>
    /\ UNCHANGED <<cvars, gvars>>

\* while (!quit) fails: main_poll returns to main(), which goes on at
\* finish
main_poll_return ==
    /\ pc = "loop"
    /\ ~LoopGoesOn
    /\ pc' = "finish"
    /\ UNCHANGED <<bus, bus_fd, udev, quit, main_p, poll_r, poll_i, bus_r, bus_from,
                   bus_n, sig_pending, open_fds, name_owned, exit_status,
                   invoked, ready_in, released, close_log, startup_failed,
                   err_cause, sig_seen>>
    /\ UNCHANGED <<cvars, gvars>>

\* the for loop's test fails: back to the while test; the wake-up is over
\* and the locals r and i of the loop body are gone
scan_end ==
    /\ pc = "scan"
    /\ ~ScanGoesOn
    /\ pc' = "loop"
    /\ poll_r' = 0
    /\ poll_i' = scan_first
    /\ invoked' = <<>>
    /\ ready_in' = {}
    /\ UNCHANGED <<bus, bus_fd, udev, quit, main_p, bus_r, bus_from,
                   bus_n, sig_pending, open_fds, name_owned, exit_status,
                   released, close_log, startup_failed, err_cause, sig_seen>>
    /\ UNCHANGED <<cvars, gvars>>

\* main_p[i].revents has no POLLIN: i++
scan_skip ==
    /\ pc = "scan"
    /\ ScanGoesOn
    /\ ~HasPOLLIN(main_p[scanned(poll_i)].revents)
    /\ poll_i' = scan_next(poll_i)
    /\ UNCHANGED <<pc, bus, bus_fd, udev, quit, main_p, poll_r, bus_r, bus_from,
                   bus_n, sig_pending, open_fds, name_owned, exit_status,
                   invoked, ready_in, released, close_log, startup_failed,
                   err_cause, sig_seen>>
    /\ UNCHANGED <<cvars, gvars>>

\* the source at index i is to be served now
Serving(k) == pc = "scan" /\ ScanGoesOn /\ scanned(poll_i) = k /\ HasPOLLIN(main_p[k].revents)

\* case BUS: bus_cb();
scan_bus ==
    /\ Serving(BUS)
    /\ invoked' = Append(invoked, BUS)
    /\ pc' = "bus_cb"
    /\ bus_from' = "main_poll"
    /\ UNCHANGED <<bus, bus_fd, udev, quit, main_p, poll_r, poll_i, bus_r, bus_n,
                   sig_pending, open_fds, name_owned, exit_status, ready_in,
                   released, close_log, startup_failed, err_cause, sig_seen>>
    /\ UNCHANGED <<cvars, gvars>>

\* a signal_cb that reports the signal as an error
signal_cb_quit_as_error == LEAVE_W_ERR

\* the value signal_cb gives quit (main.c:124)
signal_cb_quit == SIGNAL_RCV

\* case SIGNAL: signal_cb(): read the signalfd, which takes the queued
\* signal off it, and quit = SIGNAL_RCV; then r-- and i++
scan_signal ==
    /\ Serving(SIGNAL)
    /\ invoked' = Append(invoked, SIGNAL)
    /\ sig_pending' = FALSE
    /\ quit' = signal_cb_quit
    /\ poll_r' = poll_r - 1
    /\ poll_i' = scan_next(poll_i)
    /\ UNCHANGED <<pc, bus, bus_fd, udev, main_p, bus_r, bus_from, bus_n,
                   open_fds, name_owned, exit_status, ready_in, released,
                   close_log, startup_failed, err_cause, sig_seen>>
    /\ UNCHANGED <<cvars, gvars>>

\* case BRIGHT_SMOOTH: brightness_smooth_cb(); case GAMMA_SMOOTH:
\* gamma_smooth_cb(): one step of a ramp, which touches nothing of the
\* dispatcher; then r-- and i++
scan_smooth ==
    /\ \E k \in {BRIGHT_SMOOTH, GAMMA_SMOOTH} :
        /\ Serving(k)
        /\ invoked' = Append(invoked, k)
    /\ poll_r' = poll_r - 1
    /\ poll_i' = scan_next(poll_i)
    /\ UNCHANGED <<pc, bus, bus_fd, udev, quit, main_p, bus_r, bus_from, bus_n,
                   sig_pending, open_fds, name_owned, exit_status, ready_in,
                   released, close_log, startup_failed, err_cause, sig_seen>>
    /\ UNCHANGED <<cvars, gvars>>

\* case WEBCAM_MON: case ALS_MON: sensor_receive_device and, for a device,
\* two signals emitted on the bus; then r-- and i++
scan_hotplug ==
    /\ \E k \in {WEBCAM_MON, ALS_MON} :
        /\ Serving(k)
        /\ invoked' = Append(invoked, k)
    /\ poll_r' = poll_r - 1
    /\ poll_i' = scan_next(poll_i)
    /\ UNCHANGED <<pc, bus, bus_fd, udev, quit, main_p, bus_r, bus_from, bus_n,
                   sig_pending, open_fds, name_owned, exit_status, ready_in,
                   released, close_log, startup_failed, err_cause, sig_seen>>
    /\ UNCHANGED <<cvars, gvars>>

(***************************************************************************)
(* main(): finish (main.c:262-269) and close_mainp (main.c:218-224).       *)
(***************************************************************************)
\* sd_bus_release_name(bus, bus_interface);
main_release_name ==
    /\ pc = "finish"
    /\ released' = Append(released, "release_name")
    /\ name_owned' = FALSE
    /\ pc' = "finish_bus"
    /\ UNCHANGED <<bus, bus_fd, udev, quit, main_p, poll_r, poll_i, bus_r, bus_from,
                   bus_n, sig_pending, open_fds, exit_status, invoked, ready_in,
                   close_log, startup_failed, err_cause, sig_seen>>
    /\ UNCHANGED <<cvars, gvars>>

\* a finish that releases the connection only on a clean shutdown
main_release_bus_unless_error ==
    /\ pc = "finish_bus"
    /\ IF bus /\ quit # LEAVE_W_ERR
       THEN /\ released' = Append(released, "release_bus")
            /\ open_fds' = open_fds \ {bus_fd}
            /\ close_log' = Append(close_log, [fd |-> bus_fd, by |-> "sd_bus_flush_close_unref"])
       ELSE UNCHANGED <<released, open_fds, close_log>>
    /\ pc' = "finish_udev"
    /\ UNCHANGED <<bus, bus_fd, udev, quit, main_p, poll_r, poll_i, bus_r, bus_from,
                   bus_n, sig_pending, name_owned, exit_status, invoked, ready_in,
                   startup_failed, err_cause, sig_seen>>
    /\ UNCHANGED <<cvars, gvars>>

\* if (bus) { sd_bus_flush_close_unref(bus); }: the connection's descriptor
\* is closed with it
main_release_bus ==
    /\ pc = "finish_bus"
    /\ IF bus
       THEN /\ released' = Append(released, "release_bus")
            /\ open_fds' = open_fds \ {bus_fd}
            /\ close_log' = Append(close_log, [fd |-> bus_fd, by |-> "sd_bus_flush_close_unref"])
       ELSE UNCHANGED <<released, open_fds, close_log>>
    /\ pc' = "finish_udev"
    /\ UNCHANGED <<bus, bus_fd, udev, quit, main_p, poll_r, poll_i, bus_r, bus_from,
                   bus_n, sig_pending, name_owned, exit_status, invoked, ready_in,
                   startup_failed, err_cause, sig_seen>>
    /\ UNCHANGED <<cvars, gvars>>

\* udev_unref(udev);
main_udev_unref ==
    /\ pc = "finish_udev"
    /\ released' = Append(released, "udev_unref")
    /\ udev' = "released"
    /\ pc' = "finish_close"
    /\ UNCHANGED <<bus, bus_fd, quit, main_p, poll_r, poll_i, bus_r, bus_from,
                   bus_n, sig_pending, open_fds, name_owned, exit_status, invoked,
                   ready_in, close_log, startup_failed, err_cause, sig_seen>>
    /\ UNCHANGED <<cvars, gvars>>

\* if (main_p[i].fd > 0)
close_wanted(fd) == fd > 0

\* the close() calls of close_mainp for the entries k .. POLL_SIZE-1
RECURSIVE ClosesFrom(_)
ClosesFrom(k) ==
    IF k >= POLL_SIZE THEN <<>>
    ELSE (IF close_wanted(main_p[k].fd)
          THEN <<[fd |-> main_p[k].fd, by |-> "close_mainp"]>>
          ELSE <<>>) \o ClosesFrom(k + 1)

\* close_mainp();
close_mainp ==
    /\ pc = "finish_close"
    /\ released' = Append(released, "close_mainp")
    /\ close_log' = close_log \o ClosesFrom(BUS)
    /\ open_fds' = open_fds \ {main_p[k].fd : k \in {j \in Sources : close_wanted(main_p[j].fd)}}
    /\ pc' = "return"
    /\ UNCHANGED <<bus, bus_fd, udev, quit, main_p, poll_r, poll_i, bus_r, bus_from,
                   bus_n, sig_pending, name_owned, exit_status, invoked, ready_in,
                   startup_failed, err_cause, sig_seen>>
    /\ UNCHANGED <<cvars, gvars>>

\* quit == LEAVE_W_ERR ? EXIT_FAILURE : EXIT_SUCCESS
exit_code(q) == IF q = LEAVE_W_ERR THEN EXIT_FAILURE ELSE EXIT_SUCCESS

\* return quit == LEAVE_W_ERR ? EXIT_FAILURE : EXIT_SUCCESS;
main_return ==
    /\ pc = "return"
    /\ exit_status' = exit_code(quit)
    /\ pc' = "exited"
    /\ UNCHANGED <<bus, bus_fd, udev, quit, main_p, poll_r, poll_i, bus_r, bus_from,
                   bus_n, sig_pending, open_fds, name_owned, invoked, ready_in,
                   released, close_log, startup_failed, err_cause, sig_seen>>
    /\ UNCHANGED <<cvars, gvars>>

(***************************************************************************)
(* The daemon.                                                             *)
(***************************************************************************)
\* the steps of the process itself
Step ==
    \/ main_connect \/ main_add_vtable \/ main_request_name \/ set_pollfd
    \/ bus_cb_more \/ bus_cb_empty \/ bus_cb_error
    \/ poll_ready \/ poll_eintr \/ poll_error \/ main_poll_return
    \/ scan_end \/ scan_skip \/ scan_bus \/ scan_signal \/ scan_smooth
    \/ scan_hotplug
    \/ main_release_name \/ main_release_bus \/ main_udev_unref \/ close_mainp
    \/ main_return

Next ==
    \/ main_connect \/ main_add_vtable \/ main_request_name \/ set_pollfd
    \/ bus_cb_more \/ bus_cb_empty \/ bus_cb_error
    \/ deliver_signal
    \/ poll_ready \/ poll_eintr \/ poll_error \/ main_poll_return
    \/ scan_end \/ scan_skip \/ scan_bus \/ scan_signal \/ scan_smooth
    \/ scan_hotplug
    \/ main_release_name \/ main_release_bus \/ main_udev_unref \/ close_mainp
    \/ main_return

Spec == Init /\ [][Next]_vars

\* a running process takes its next step
FairSpec == Init /\ [][Next]_vars /\ WF_vars(Step)

(***************************************************************************)
(* Properties of the dispatcher.                                           *)
(***************************************************************************)
Exited == pc = "exited"

AllReleaseSteps == <<"release_name", "release_bus", "udev_unref", "close_mainp">>

\* C1: a daemon-fatal error (a failed connect, object installation or name
\* request in main(), or a poll() error other than EINTR) makes main()
\* return a non-zero status.
C1_FatalErrorExitsNonZero ==
    (Exited /\ (startup_failed \/ err_cause = "poll")) => exit_status # EXIT_SUCCESS

\* C2, as claimed: whenever a signal became pending while the loop was
\* running, main() returns zero.
C2_SignalExitsZero ==
    (Exited /\ sig_seen) => exit_status = EXIT_SUCCESS

\* C2, amended: a signal pending on the signalfd while the loop runs leads to
\* the loop stopping and the whole shutdown sequence running; main() then
\* returns zero unless sd_bus_process or poll failed before signal_cb ran,
\* and EXIT_FAILURE if one did.
C2_SignalShutsDown ==
    /\ (sig_pending /\ InLoop) ~> (Exited /\ released = AllReleaseSteps)
    /\ []((Exited /\ sig_seen) =>
            exit_status = IF err_cause = "none" THEN EXIT_SUCCESS ELSE EXIT_FAILURE)

C2_Witness ==
    Exited /\ sig_seen /\ quit = SIGNAL_RCV /\ exit_status = EXIT_SUCCESS

\* the order of service the specification states
Priority == <<BUS, SIGNAL, BRIGHT_SMOOTH, GAMMA_SMOOTH, WEBCAM_MON, ALS_MON>>
Rank(k) == CHOOSE n \in 1 .. Len(Priority) : Priority[n] = k

\* C3: within one wake-up the handlers run in the order RPC, signal,
\* brightness smoothing, gamma smoothing, webcam hotplug, ALS hotplug: a
\* handler never runs before the handler of a ready source of lower rank; in
\* particular the RPC drain of a ready bus precedes signal_cb.
C3_FixedPriorityOrder ==
    /\ \A a, b \in 1 .. Len(invoked) : a < b => Rank(invoked[a]) < Rank(invoked[b])
    /\ \A b \in 1 .. Len(invoked) : \A k \in ready_in :
          Rank(k) < Rank(invoked[b]) => \E a \in 1 .. (b - 1) : invoked[a] = k

C3_Witness ==
    invoked = <<BUS, SIGNAL>> /\ quit = SIGNAL_RCV

\* C4, as claimed: at every exit of main() all four release steps have run,
\* in order.
C4_AllFourStepsRun ==
    Exited => released = AllReleaseSteps

\* C4, amended: at every exit of main() the release of the name, of the udev
\* context and of the wake-source descriptors have run, in this order; the
\* release of the bus connection runs between the first two exactly when
\* there is a connection (bus is not NULL), and is skipped when the initial
\* connect failed.  Nothing of what was acquired is left.
C4_ReleaseOrder ==
    Exited =>
        /\ released = IF bus THEN AllReleaseSteps
                      ELSE <<"release_name", "udev_unref", "close_mainp">>
        /\ ~name_owned
        /\ udev = "released"
        /\ bus_fd \notin open_fds
        /\ \A k \in Sources : main_p[k].fd > 0 => main_p[k].fd \notin open_fds

C4_Witness ==
    Exited /\ quit = LEAVE_W_ERR /\ released = AllReleaseSteps

(***************************************************************************)
(* The capture request: method_captureframes (main.c:308-348).            *)
(***************************************************************************)
\* the numbers of frames requests ask for
Counts == (-1 .. SmallCount) \cup ((MAX_CAPTURES - 1) .. (MAX_CAPTURES + 1))

\* the brightness compute_brightness may find in frame i
Samples == {0, 10, 90}
FrameSamples(i) == IF i < MaxVaried THEN Samples ELSE {10}

\* sd_bus_process hands a CaptureWebcam call to method_captureframes; what
\* the last request left in its locals is gone
request_arrives ==
    /\ cpc \in {"idle", "returned"}
    /\ requests < MaxRequests
    /\ requests' = requests + 1
    /\ cpc' = "check_authorization"
    /\ num_captures' = 0
    /\ frame_i' = 0
    /\ avg_brightness' = <<0, 1>>
    /\ error' = 0
    /\ ret' = 0
    /\ ret_error' = NoError
    /\ reply' = <<>>
    /\ looked_up' = FALSE
    /\ sessions' = 0
    /\ req_fd' = -1
    /\ open_errno' = 0
    /\ ops' = <<>>
    /\ UNCHANGED <<state, st, mapped, heap, streaming>>
    /\ UNCHANGED <<gvars, dvars>>

\* if (!check_authorization(m)) { sd_bus_error_set_errno(ret_error, EPERM);
\* return -EPERM; }
check_authorization ==
    /\ cpc = "check_authorization"
    /\ \E authorized \in BOOLEAN :
        IF authorized
        THEN cpc' = "read_params" /\ UNCHANGED <<ret, ret_error>>
        ELSE /\ ret_error' = [name |-> "errno", code |-> EPERM]
             /\ ret' = -EPERM
             /\ cpc' = "returned"
    /\ UNCHANGED <<num_captures, state, st, frame_i, avg_brightness, error,
                   reply, mapped, heap, streaming, looked_up, sessions, req_fd,
                   open_errno, ops>>
    /\ UNCHANGED <<requests, gvars, dvars>>

\* r = sd_bus_message_read(m, "si", &video_interface, &num_captures);
\* if (r < 0) { return r; }
read_params ==
    /\ cpc = "read_params"
    /\ \/ \E n \in Counts :
            /\ num_captures' = n
            /\ cpc' = "validate"
            /\ UNCHANGED ret
       \/ /\ ret' = -EINVAL
          /\ cpc' = "returned"
          /\ UNCHANGED num_captures
    /\ UNCHANGED <<state, st, frame_i, avg_brightness, error, ret_error, reply,
                   mapped, heap, streaming, looked_up, sessions, req_fd,
                   open_errno, ops>>
    /\ UNCHANGED <<requests, gvars, dvars>>

\* a check that lets MAX_CAPTURES + 1 through and turns MAX_CAPTURES away
CountRejected_off_by_one(n) == n < 0 \/ n >= MAX_CAPTURES

\* num_captures <= 0 || num_captures > 20
CountRejected(n) == n <= 0 \/ n > MAX_CAPTURES

\* if (num_captures <= 0 || num_captures > 20) { sd_bus_error_set_const(
\* ret_error, SD_BUS_ERROR_FAILED, "..."); return -EINVAL; }
validate_count ==
    /\ cpc = "validate"
    /\ IF CountRejected(num_captures)
       THEN /\ ret_error' = [name |-> "SD_BUS_ERROR_FAILED", code |-> 0]
            /\ ret' = -EINVAL
            /\ cpc' = "returned"
       ELSE cpc' = "get_udev_device" /\ UNCHANGED <<ret, ret_error>>
    /\ UNCHANGED <<num_captures, state, st, frame_i, avg_brightness, error,
                   reply, mapped, heap, streaming, looked_up, sessions, req_fd,
                   open_errno, ops>>
    /\ UNCHANGED <<requests, gvars, dvars>>

\* get_udev_device(video_interface, "video4linux", &ret_error, &dev);
\* if (sd_bus_error_is_set(ret_error)) { return -sd_bus_error_get_errno(ret_error); }
get_udev_device ==
    /\ cpc = "get_udev_device"
    /\ looked_up' = TRUE
    /\ \/ cpc' = "capture_frames" /\ UNCHANGED <<ret, ret_error>>
       \/ /\ ret_error' = [name |-> "errno", code |-> ENOENT]
          /\ ret' = -ENOENT
          /\ cpc' = "returned"
    /\ UNCHANGED <<num_captures, state, st, frame_i, avg_brightness, error,
                   reply, mapped, heap, streaming, sessions, req_fd, open_errno,
                   ops>>
    /\ UNCHANGED <<requests, gvars, dvars>>

(***************************************************************************)
(* capture_frames (main.c:350-393) and what it calls.                      *)
(***************************************************************************)
\* the record of a call on the device or the memory: e is 0, or the errno
\* it failed with
Op(name, e) == [op |-> name, e |-> e]

\* double avg_brightness = -1; struct state tmp = {0}; state = &tmp;
capture_frames_enter ==
    /\ cpc = "capture_frames"
    /\ avg_brightness' = <<-1, 1>>
    /\ st' = ZeroState
    /\ state' = TRUE
    /\ sessions' = sessions + 1
    /\ cpc' = "open_device"
    /\ UNCHANGED <<num_captures, frame_i, error, ret, ret_error, reply, mapped,
                   heap, streaming, looked_up, req_fd, open_errno, ops>>
    /\ UNCHANGED <<requests, gvars, dvars>>

\* the value open_device gives state->quit when open() fails with errno e
\* (main.c:400)
open_device_quit(e) == 1

\* open_device: state->device_fd = open(interface, O_RDWR); it succeeds.
\* Back in capture_frames, if (!state->quit) holds
open_device_ok ==
    /\ cpc = "open_device"
    /\ st' = [st EXCEPT !.device_fd = lowest_free(open_fds)]
    /\ open_fds' = open_fds \cup {lowest_free(open_fds)}
    /\ req_fd' = lowest_free(open_fds)
    /\ ops' = Append(ops, Op("open", 0))
    /\ cpc' = "init"
    /\ UNCHANGED <<num_captures, state, frame_i, avg_brightness, error, ret,
                   ret_error, reply, mapped, heap, streaming, looked_up,
                   sessions, open_errno>>
    /\ UNCHANGED <<requests, gvars, dvars_but_fds>>

\* open_device: open() fails: state->quit = 1.  Back in capture_frames,
\* if (!state->quit) fails and control reaches end
open_device_fails ==
    /\ cpc = "open_device"
    /\ \E e \in OpenErrnos :
        /\ st' = [st EXCEPT !.device_fd = -1, !.quit = open_device_quit(e)]
        /\ open_errno' = e
        /\ ops' = Append(ops, Op("open", e))
    /\ cpc' = "end"
    /\ UNCHANGED <<num_captures, state, frame_i, avg_brightness, error, ret,
                   ret_error, reply, mapped, heap, streaming, looked_up,
                   sessions, req_fd>>
    /\ UNCHANGED <<requests, gvars, dvars>>

\* xioctl (main.c:476-487) when the ioctl fails with errno e (after any
\* repetitions on EINTR): state->quit = errno
xioctl_failed(s, e) == [s EXCEPT !.quit = e]

\* init: VIDIOC_QUERYCAP fails; back in capture_frames, goto end
init_querycap_fails ==
    /\ cpc = "init"
    /\ \E e \in IoctlErrnos :
        /\ st' = xioctl_failed(st, e)
        /\ ops' = Append(ops, Op("VIDIOC_QUERYCAP", e))
    /\ cpc' = "end"
    /\ UNCHANGED <<num_captures, state, frame_i, avg_brightness, error, ret,
                   ret_error, reply, mapped, heap, streaming, looked_up,
                   sessions, req_fd, open_errno>>
    /\ UNCHANGED <<requests, gvars, dvars>>

\* init: the device is no capture device, or does no streaming i/o:
\* state->quit = 1; back in capture_frames, goto end
init_unsuitable ==
    /\ cpc = "init"
    /\ st' = [st EXCEPT !.quit = 1]
    /\ ops' = Append(ops, Op("VIDIOC_QUERYCAP", 0))
    /\ cpc' = "end"
    /\ UNCHANGED <<num_captures, state, frame_i, avg_brightness, error, ret,
                   ret_error, reply, mapped, heap, streaming, looked_up,
                   sessions, req_fd, open_errno>>
    /\ UNCHANGED <<requests, gvars, dvars>>

\* init, after VIDIOC_S_PRIORITY: a failure is forgiven (state->quit = 0)
after_priority(s, e) == IF e = 0 THEN s ELSE [xioctl_failed(s, e) EXCEPT !.quit = 0]

\* init: the capabilities are right, the priority is set or not, and
\* VIDIOC_S_FMT fails; back in capture_frames, goto end
init_fmt_fails ==
    /\ cpc = "init"
    /\ \E p \in {0} \cup IoctlErrnos : \E e \in IoctlErrnos :
        /\ st' = xioctl_failed(after_priority(st, p), e)
        /\ ops' = ops \o <<Op("VIDIOC_QUERYCAP", 0), Op("VIDIOC_S_PRIORITY", p),
                           Op("VIDIOC_S_FMT", e)>>
    /\ cpc' = "end"
    /\ UNCHANGED <<num_captures, state, frame_i, avg_brightness, error, ret,
                   ret_error, reply, mapped, heap, streaming, looked_up,
                   sessions, req_fd, open_errno>>
    /\ UNCHANGED <<requests, gvars, dvars>>

\* init: the capabilities are right, the priority is set or not, and the
\* format is set: width and height are the driver's
init_ok ==
    /\ cpc = "init"
    /\ \E p \in {0} \cup IoctlErrnos :
        /\ st' = [after_priority(st, p) EXCEPT !.width = FmtWidth, !.height = FmtHeight]
        /\ ops' = ops \o <<Op("VIDIOC_QUERYCAP", 0), Op("VIDIOC_S_PRIORITY", p),
                           Op("VIDIOC_S_FMT", 0)>>
    /\ cpc' = "init_mmap"
    /\ UNCHANGED <<num_captures, state, frame_i, avg_brightness, error, ret,
                   ret_error, reply, mapped, heap, streaming, looked_up,
                   sessions, req_fd, open_errno>>
    /\ UNCHANGED <<requests, gvars, dvars>>

\* init_mmap: VIDIOC_REQBUFS fails; back in capture_frames, goto end
init_mmap_reqbufs_fails ==
    /\ cpc = "init_mmap"
    /\ \E e \in IoctlErrnos :
        /\ st' = xioctl_failed(st, e)
        /\ ops' = Append(ops, Op("VIDIOC_REQBUFS", e))
    /\ cpc' = "end"
    /\ UNCHANGED <<num_captures, state, frame_i, avg_brightness, error, ret,
                   ret_error, reply, mapped, heap, streaming, looked_up,
                   sessions, req_fd, open_errno>>
    /\ UNCHANGED <<requests, gvars, dvars>>

\* init_mmap: VIDIOC_QUERYBUF fails; back in capture_frames, goto end
init_mmap_querybuf_fails ==
    /\ cpc = "init_mmap"
    /\ \E e \in IoctlErrnos :
        /\ st' = xioctl_failed(st, e)
        /\ ops' = ops \o <<Op("VIDIOC_REQBUFS", 0), Op("VIDIOC_QUERYBUF", e)>>
    /\ cpc' = "end"
    /\ UNCHANGED <<num_captures, state, frame_i, avg_brightness, error, ret,
                   ret_error, reply, mapped, heap, streaming, looked_up,
                   sessions, req_fd, open_errno>>
    /\ UNCHANGED <<requests, gvars, dvars>>

\* init_mmap: mmap fails: state->buffer is MAP_FAILED, state->quit = 1,
\* state->buf_size = buf.length; back in capture_frames, goto end
init_mmap_mmap_fails ==
    /\ cpc = "init_mmap"
    /\ \E e \in IoctlErrnos :
        /\ st' = [st EXCEPT !.buffer = MAP_FAILED, !.quit = 1, !.buf_size = BufLength]
        /\ ops' = ops \o <<Op("VIDIOC_REQBUFS", 0), Op("VIDIOC_QUERYBUF", 0),
                           Op("mmap", e)>>
    /\ cpc' = "end"
    /\ UNCHANGED <<num_captures, state, frame_i, avg_brightness, error, ret,
                   ret_error, reply, mapped, heap, streaming, looked_up,
                   sessions, req_fd, open_errno>>
    /\ UNCHANGED <<requests, gvars, dvars>>

\* init_mmap: the buffer is mapped
init_mmap_ok ==
    /\ cpc = "init_mmap"
    /\ st' = [st EXCEPT !.buffer = MapAddr, !.buf_size = BufLength]
    /\ mapped' = TRUE
    /\ ops' = ops \o <<Op("VIDIOC_REQBUFS", 0), Op("VIDIOC_QUERYBUF", 0),
                       Op("mmap", 0)>>
    /\ cpc' = "calloc"
    /\ UNCHANGED <<num_captures, state, frame_i, avg_brightness, error, ret,
                   ret_error, reply, heap, streaming, looked_up, sessions,
                   req_fd, open_errno>>
    /\ UNCHANGED <<requests, gvars, dvars>>

\* state->brightness_values = calloc(num_captures, sizeof(double));
alloc_samples ==
    /\ cpc = "calloc"
    /\ st' = [st EXCEPT !.brightness_values = [k \in 1 .. num_captures |-> 0]]
    /\ heap' = heap + 1
    /\ ops' = Append(ops, Op("calloc", 0))
    /\ cpc' = "start_stream"
    /\ UNCHANGED <<num_captures, state, frame_i, avg_brightness, error, ret,
                   ret_error, reply, mapped, streaming, looked_up, sessions,
                   req_fd, open_errno>>
    /\ UNCHANGED <<requests, gvars, dvars>>

\* start_stream: VIDIOC_STREAMON succeeds
start_stream_ok ==
    /\ cpc = "start_stream"
    /\ streaming' = TRUE
    /\ frame_i' = 0
    /\ ops' = Append(ops, Op("VIDIOC_STREAMON", 0))
    /\ cpc' = "frames"
    /\ UNCHANGED <<num_captures, state, st, avg_brightness, error, ret,
                   ret_error, reply, mapped, heap, looked_up, sessions, req_fd,
                   open_errno>>
    /\ UNCHANGED <<requests, gvars, dvars>>

\* a start_stream whose failure is not looked at: the frame loop is entered
start_stream_fails_unnoticed ==
    /\ cpc = "start_stream"
    /\ \E e \in IoctlErrnos : ops' = Append(ops, Op("VIDIOC_STREAMON", e))
    /\ frame_i' = 0
    /\ cpc' = "frames"
    /\ UNCHANGED <<num_captures, state, st, avg_brightness, error, ret,
                   ret_error, reply, mapped, heap, streaming, looked_up,
                   sessions, req_fd, open_errno>>
    /\ UNCHANGED <<requests, gvars, dvars>>

\* start_stream: VIDIOC_STREAMON fails; back in capture_frames, goto end
start_stream_fails ==
    /\ cpc = "start_stream"
    /\ \E e \in IoctlErrnos :
        /\ st' = xioctl_failed(st, e)
        /\ ops' = Append(ops, Op("VIDIOC_STREAMON", e))
    /\ cpc' = "end"
    /\ UNCHANGED <<num_captures, state, frame_i, avg_brightness, error, ret,
                   ret_error, reply, mapped, heap, streaming, looked_up,
                   sessions, req_fd, open_errno>>
    /\ UNCHANGED <<requests, gvars, dvars>>

\* a frame loop that runs to the count whatever state->quit says
FramesGoOn_whatever_quit == frame_i < num_captures

\* for (int i = 0; i < num_captures && !state->quit; i++)
FramesGoOn == frame_i < num_captures /\ st.quit = 0

\* a stop_stream whose failure is forgiven, as init forgives the priority's
after_stop_stream_forgiving(s, e) == after_priority(s, e)

\* stop_stream (main.c:496-501): VIDIOC_STREAMOFF succeeds (e = 0) or fails
\* with errno e; stop_stream itself only prints
after_stop_stream(s, e) == IF e = 0 THEN s ELSE xioctl_failed(s, e)

\* capture_frame(i): the buffer is enqueued and dequeued;
\* state->brightness_values[i] = compute_brightness(buf.bytesused)
capture_frame_ok ==
    /\ cpc = "frames"
    /\ FramesGoOn
    /\ \E b \in FrameSamples(frame_i) :
        st' = [st EXCEPT !.brightness_values[frame_i + 1] = b]
    /\ ops' = ops \o <<Op("VIDIOC_QBUF", 0), Op("VIDIOC_DQBUF", 0)>>
    /\ frame_i' = frame_i + 1
    /\ UNCHANGED <<cpc, num_captures, state, avg_brightness, error, ret, ret_error,
                   reply, mapped, heap, streaming, looked_up, sessions, req_fd,
                   open_errno>>
    /\ UNCHANGED <<requests, gvars, dvars>>

\* capture_frame(i): VIDIOC_QBUF fails: return stop_stream();
capture_frame_qbuf_fails ==
    /\ cpc = "frames"
    /\ FramesGoOn
    /\ \E e \in IoctlErrnos : \E off \in {0} \cup IoctlErrnos :
        /\ st' = after_stop_stream(xioctl_failed(st, e), off)
        /\ streaming' = IF off = 0 THEN FALSE ELSE streaming
        /\ ops' = ops \o <<Op("VIDIOC_QBUF", e), Op("VIDIOC_STREAMOFF", off)>>
    /\ frame_i' = frame_i + 1
    /\ UNCHANGED <<cpc, num_captures, state, avg_brightness, error, ret, ret_error,
                   reply, mapped, heap, looked_up, sessions, req_fd, open_errno>>
    /\ UNCHANGED <<requests, gvars, dvars>>

\* capture_frame(i): VIDIOC_DQBUF fails: return;
capture_frame_dqbuf_fails ==
    /\ cpc = "frames"
    /\ FramesGoOn
    /\ \E e \in IoctlErrnos :
        /\ st' = xioctl_failed(st, e)
        /\ ops' = ops \o <<Op("VIDIOC_QBUF", 0), Op("VIDIOC_DQBUF", e)>>
    /\ frame_i' = frame_i + 1
    /\ UNCHANGED <<cpc, num_captures, state, avg_brightness, error, ret, ret_error,
                   reply, mapped, heap, streaming, looked_up, sessions, req_fd,
                   open_errno>>
    /\ UNCHANGED <<requests, gvars, dvars>>

\* the frame loop is over: stop_stream();
stop_stream ==
    /\ cpc = "frames"
    /\ ~FramesGoOn
    /\ \E off \in {0} \cup IoctlErrnos :
        /\ st' = after_stop_stream(st, off)
        /\ streaming' = IF off = 0 THEN FALSE ELSE streaming
        /\ ops' = Append(ops, Op("VIDIOC_STREAMOFF", off))
    /\ cpc' = "aggregate"
    /\ UNCHANGED <<num_captures, state, frame_i, avg_brightness, error, ret,
                   ret_error, reply, mapped, heap, looked_up, sessions, req_fd,
                   open_errno>>
    /\ UNCHANGED <<requests, gvars, dvars>>

\* the loop of compute_avg_brightness from index i on (main.c:543-550):
\* <<lowest, highest, total>>
RECURSIVE AvgScan(_, _, _, _, _, _)
AvgScan(v, n, i, lowest, highest, total) ==
    IF i >= n THEN <<lowest, highest, total>>
    ELSE IF v[i + 1] < v[lowest + 1]
         THEN AvgScan(v, n, i + 1, i, highest, total + v[i + 1])
         ELSE IF v[i + 1] > v[highest + 1]
              THEN AvgScan(v, n, i + 1, lowest, i, total + v[i + 1])
              ELSE AvgScan(v, n, i + 1, lowest, highest, total + v[i + 1])

\* total /= 255 (main.c:558)
LumaMax == 255

\* an average that never removes the lowest and the highest sample
compute_avg_brightness_untrimmed(v, n) == <<AvgScan(v, n, 0, 0, 0, 0)[3], LumaMax * n>>

\* compute_avg_brightness (main.c:539-560) on the samples v, n of them: the
\* quotient total / 255 / num_captures as <<numerator, denominator>>
compute_avg_brightness(v, n) ==
    LET r == AvgScan(v, n, 0, 0, 0, 0)
        lowest == r[1]
        highest == r[2]
        total == r[3]
    IN  IF total # 0 /\ n > 2
        THEN <<total - (v[highest + 1] + v[lowest + 1]), LumaMax * (n - 2)>>
        ELSE <<total, LumaMax * n>>

\* if (!state->quit) { avg_brightness = compute_avg_brightness(num_captures); }
aggregate ==
    /\ cpc = "aggregate"
    /\ avg_brightness' = IF st.quit = 0
                         THEN compute_avg_brightness(st.brightness_values, num_captures)
                         ELSE avg_brightness
    /\ cpc' = "end"
    /\ UNCHANGED <<num_captures, state, st, frame_i, error, ret, ret_error,
                   reply, mapped, heap, streaming, looked_up, sessions, req_fd,
                   open_errno, ops>>
    /\ UNCHANGED <<requests, gvars, dvars>>

\* an end that escalates the session's failure to the dispatcher
capture_end_quit_escalated(q, s) == IF s.quit # 0 THEN LEAVE_W_ERR ELSE q

\* the dispatcher's quit q after the end of capture_frames for the session
\* s: the session's quit goes to *err, the static quit is not assigned
capture_end_quit(q, s) == q

\* end: if (state->quit) { *err = state->quit; }
capture_end ==
    /\ cpc = "end"
    /\ error' = IF st.quit # 0 THEN st.quit ELSE error
    /\ quit' = capture_end_quit(quit, st)
    /\ cpc' = "free_all"
    /\ UNCHANGED <<num_captures, state, st, frame_i, avg_brightness, ret,
                   ret_error, reply, mapped, heap, streaming, looked_up,
                   sessions, req_fd, open_errno, ops>>
    /\ UNCHANGED <<requests, gvars, dvars_but_quit>>

\* a free_all that closes the device only after a request without error
free_all_closes_if_no_error(s) == s.device_fd # -1 /\ s.quit = 0

\* a free_all that unmaps the buffer only after a request without error
free_all_unmaps_if_no_error(s) == s.buffer # 0 /\ s.quit = 0

\* a free_all that leaves the buffer mapped
free_all_unmaps_never(s) == FALSE

\* the tests of free_all (main.c:563, 566, 569)
free_all_closes(s) == s.device_fd # -1
free_all_unmaps(s) == s.buffer # 0
free_all_frees(s) == s.brightness_values # <<>>

\* free_all: if (state->device_fd != -1) close(state->device_fd);
\* closing the device ends its streaming
free_all_close ==
    /\ cpc = "free_all"
    /\ IF free_all_closes(st)
       THEN /\ open_fds' = open_fds \ {st.device_fd}
            /\ streaming' = FALSE
            /\ ops' = Append(ops, Op("close", 0))
       ELSE UNCHANGED <<open_fds, streaming, ops>>
    /\ cpc' = "free_all_munmap"
    /\ UNCHANGED <<num_captures, state, st, frame_i, avg_brightness, error, ret,
                   ret_error, reply, mapped, heap, looked_up, sessions, req_fd,
                   open_errno>>
    /\ UNCHANGED <<requests, gvars, dvars_but_fds>>

\* free_all: if (state->buffer) munmap(state->buffer, state->buf_size);
\* munmap of an address that is no mapping fails with EINVAL
free_all_munmap ==
    /\ cpc = "free_all_munmap"
    /\ IF free_all_unmaps(st)
       THEN /\ mapped' = IF st.buffer # MAP_FAILED THEN FALSE ELSE mapped
            /\ ops' = Append(ops, Op("munmap", IF st.buffer = MAP_FAILED
                                               THEN EINVAL ELSE 0))
       ELSE UNCHANGED <<mapped, ops>>
    /\ cpc' = "free_all_free"
    /\ UNCHANGED <<num_captures, state, st, frame_i, avg_brightness, error, ret,
                   ret_error, reply, heap, streaming, looked_up, sessions,
                   req_fd, open_errno>>
    /\ UNCHANGED <<requests, gvars, dvars>>

\* free_all: if (state->brightness_values) free(state->brightness_values);
\* state = NULL;  and capture_frames returns avg_brightness: tmp is gone
free_all_free ==
    /\ cpc = "free_all_free"
    /\ IF free_all_frees(st)
       THEN /\ heap' = heap - 1
            /\ ops' = Append(ops, Op("free", 0))
       ELSE UNCHANGED <<heap, ops>>
    /\ state' = FALSE
    /\ st' = ZeroState
    /\ cpc' = "after_capture"
    /\ UNCHANGED <<num_captures, frame_i, avg_brightness, error, ret, ret_error,
                   reply, mapped, streaming, looked_up, sessions, req_fd,
                   open_errno>>
    /\ UNCHANGED <<requests, gvars, dvars>>

\* if (error) { sd_bus_error_set_errno(ret_error, error); return -error; }
\* return sd_bus_reply_method_return(m, "d", val);
method_finish ==
    /\ cpc = "after_capture"
    /\ IF error # 0
       THEN /\ ret_error' = [name |-> "errno", code |-> error]
            /\ ret' = -error
            /\ UNCHANGED reply
       ELSE /\ reply' = <<avg_brightness>>
            /\ ret' = 0
            /\ UNCHANGED ret_error
    /\ cpc' = "returned"
    /\ UNCHANGED <<num_captures, state, st, frame_i, avg_brightness, error,
                   mapped, heap, streaming, looked_up, sessions, req_fd,
                   open_errno, ops>>
    /\ UNCHANGED <<requests, gvars, dvars>>

(***************************************************************************)
(* Capture requests, served one after the other by a running daemon.       *)
(***************************************************************************)
\* the dispatcher while bus_cb, called from main_poll, is in sd_bus_process
\* and the request being served holds the descriptors in held
DispatcherServingWith(held) ==
    LET busfd == lowest_free(StdFds)
        made == CreateFds(SIGNAL, StdFds \cup {busfd}, {})
    IN  /\ pc = "bus_cb"
        /\ bus = TRUE
        /\ bus_fd = busfd
        /\ udev = "live"
        /\ quit = 0
        /\ main_p = [k \in Sources |->
                        [fd |-> IF k = BUS THEN busfd ELSE made[k],
                         revents |-> IF k = BUS THEN POLLIN ELSE 0]]
        /\ poll_r = 1
        /\ poll_i = scan_first
        /\ bus_r = 0
        /\ bus_from = "main_poll"
        /\ bus_n = 0
        /\ sig_pending = FALSE
        /\ open_fds = StdFds \cup {busfd} \cup {made[k] : k \in 1 .. Len(made)} \cup held
        /\ name_owned = TRUE
        /\ exit_status = -1
        /\ invoked = <<BUS>>
        /\ ready_in = {BUS}
        /\ released = <<>>
        /\ close_log = <<>>
        /\ startup_failed = FALSE
        /\ err_cause = "none"
        /\ sig_seen = FALSE

\* the dispatcher while it serves a request that holds no descriptor yet
DispatcherServing == DispatcherServingWith({})

InitCapture == DispatcherServing /\ CaptureIdle /\ GammaIdle

NextCapture ==
    \/ request_arrives \/ check_authorization \/ read_params \/ validate_count
    \/ get_udev_device \/ capture_frames_enter
    \/ open_device_ok \/ open_device_fails
    \/ init_querycap_fails \/ init_unsuitable \/ init_fmt_fails \/ init_ok
    \/ init_mmap_reqbufs_fails \/ init_mmap_querybuf_fails
    \/ init_mmap_mmap_fails \/ init_mmap_ok
    \/ alloc_samples \/ start_stream_ok \/ start_stream_fails
    \/ capture_frame_ok \/ capture_frame_qbuf_fails \/ capture_frame_dqbuf_fails
    \/ stop_stream \/ aggregate \/ capture_end
    \/ free_all_close \/ free_all_munmap \/ free_all_free \/ method_finish

SpecCapture == InitCapture /\ [][NextCapture]_vars

(***************************************************************************)
(* Properties of the capture request.                                      *)
(***************************************************************************)
Called(name) == \E k \in DOMAIN ops : ops[k].op = name
Succeeded(name) == \E k \in DOMAIN ops : ops[k].op = name /\ ops[k].e = 0
Failed(name) == \E k \in DOMAIN ops : ops[k].op = name /\ ops[k].e # 0

\* capture_frames was called by this request and has returned
CaptureReturned == cpc \in {"after_capture", "returned"} /\ sessions > 0

\* method_captureframes has returned
Returned == cpc = "returned"

\* C5: after capture_frames returns, whatever step failed or none, the
\* device handle the request opened is closed, its buffer is unmapped, its
\* sample array is freed and the session pointer is null.
C5_SessionDestroyed ==
    CaptureReturned =>
        /\ req_fd \notin open_fds
        /\ ~mapped
        /\ heap = 0
        /\ ~streaming
        /\ state = FALSE

C5_Witness ==
    /\ cpc = "after_capture"
    /\ Succeeded("mmap") /\ Succeeded("calloc") /\ Failed("VIDIOC_DQBUF")
    /\ Called("close") /\ Called("munmap") /\ Called("free")

\* C6: free_all closes the device only if the open succeeded, unmaps the
\* buffer only if the mmap succeeded and frees the samples only if they were
\* allocated.
C6_TeardownOnlyOfWhatWasAcquired ==
    /\ Called("close") => Succeeded("open")
    /\ Called("munmap") => Succeeded("mmap")
    /\ Called("free") => Succeeded("calloc")

\* C7: when open() fails, the request ends there and the code reported to
\* the caller is the errno of the open.
C7_OpenErrnoReported ==
    (Returned /\ open_errno # 0) =>
        /\ ops = <<Op("open", open_errno)>>
        /\ error = open_errno
        /\ ret = -open_errno
        /\ ret_error = [name |-> "errno", code |-> open_errno]

FrameIoctls == {"VIDIOC_QBUF", "VIDIOC_DQBUF"}
FrameFailed == Failed("VIDIOC_QBUF") \/ Failed("VIDIOC_DQBUF")

\* the errno of the last ioctl that failed in the frame loop or at stream-off
LastFailure ==
    LET F == {k \in DOMAIN ops :
                ops[k].e # 0 /\ ops[k].op \in FrameIoctls \cup {"VIDIOC_STREAMOFF"}}
        last == CHOOSE k \in F : \A j \in F : j <= k
    IN  ops[last].e

OnlyStreamOffFailed ==
    /\ Failed("VIDIOC_STREAMOFF")
    /\ \A k \in DOMAIN ops : ops[k].e # 0 => ops[k].op = "VIDIOC_STREAMOFF"

C10_CountValidated ==
    /\ (looked_up \/ sessions > 0 \/ state \/ ops # <<>>) =>
          num_captures \in 1 .. MAX_CAPTURES
    /\ (Returned /\ num_captures \notin 0 .. MAX_CAPTURES) =>
          /\ ret_error = [name |-> "SD_BUS_ERROR_FAILED", code |-> 0]
          /\ ret = -EINVAL
    /\ (Returned /\ num_captures = 0) => ret < 0
    /\ (Returned /\ num_captures \in 1 .. MAX_CAPTURES) => looked_up

C10_Witness ==
    /\ Returned
    /\ num_captures = MAX_CAPTURES + 1
    /\ ret = -EINVAL
    /\ ~looked_up

(***************************************************************************)
(* The capture request and the daemon.                                     *)
(***************************************************************************)
\* the dispatcher is where it was when the request arrived: in bus_cb, called
\* from main_poll, not asked to quit
DispatcherRunning ==
    /\ quit = 0
    /\ pc = "bus_cb"
    /\ bus_from = "main_poll"
    /\ exit_status = -1

\* C11: while a capture request is processed and after it has returned,
\* with whatever failure or rejection, the dispatcher's quit flag is still
\* 0 and the dispatcher is still in its loop; no step of a request changes
\* quit.
C11_RequestLeavesQuitAlone == DispatcherRunning

C11_Witness ==
    /\ Returned
    /\ ret < 0
    /\ Failed("VIDIOC_STREAMON")
    /\ DispatcherRunning

\* the descriptors the dispatcher holds: the standard ones and its sources
DaemonFds == StdFds \cup {main_p[k].fd : k \in Sources}

\* the device handles capture requests hold
DeviceHandles == open_fds \ DaemonFds

\* C12: over a sequence of requests, capture_frames points state at a new
\* session only when state is null and no buffer is mapped, no sample array
\* is allocated and no device handle is open; a buffer or a device handle is
\* held only while state points at a session, and never two handles at once.
C12_OneSessionAtATime ==
    /\ [][sessions' = sessions + 1 =>
            /\ ~state
            /\ ~mapped
            /\ heap = 0
            /\ ~streaming
            /\ DeviceHandles = {}]_vars
    /\ []((mapped \/ heap > 0 \/ DeviceHandles # {}) => state)
    /\ [](Cardinality(DeviceHandles) <= 1 /\ heap <= 1)

C12_Witness ==
    /\ requests = MaxRequests
    /\ cpc = "frames"
    /\ state
    /\ mapped
    /\ DeviceHandles = {req_fd}

(***************************************************************************)
(* compute_avg_brightness on sample arrays of up to AvgMaxLen frames.      *)
(***************************************************************************)
\* the brightness of a frame, for the averaging
AvgSamples == {0, 10, 40, 50, 60, 90}

\* the sample arrays of n frames
SampleArrays(n) == [1 .. n -> AvgSamples]

\* the calls of a request of n frames in which nothing failed, up to the
\* stream-off
RECURSIVE FrameOps(_)
FrameOps(n) ==
    IF n = 0 THEN <<>>
    ELSE FrameOps(n - 1) \o <<Op("VIDIOC_QBUF", 0), Op("VIDIOC_DQBUF", 0)>>

CleanOps(n) ==
    <<Op("open", 0), Op("VIDIOC_QUERYCAP", 0), Op("VIDIOC_S_PRIORITY", 0),
      Op("VIDIOC_S_FMT", 0), Op("VIDIOC_REQBUFS", 0), Op("VIDIOC_QUERYBUF", 0),
      Op("mmap", 0), Op("calloc", 0), Op("VIDIOC_STREAMON", 0)>>
    \o FrameOps(n) \o <<Op("VIDIOC_STREAMOFF", 0)>>

\* capture_frames after stop_stream (main.c:379) in a request of n frames
\* in which nothing failed and whose frames had the brightnesses v
FramesCaptured(n, v) ==
    LET daemon == StdFds \cup {lowest_free(StdFds)}
                  \cup {CreateFds(SIGNAL, StdFds \cup {lowest_free(StdFds)}, {})[k] :
                           k \in 1 .. (POLL_SIZE - 1)}
        fd == lowest_free(daemon)
    IN  /\ DispatcherServingWith({fd})
        /\ cpc = "aggregate"
        /\ num_captures = n
        /\ state = TRUE
        /\ st = [quit |-> 0, width |-> FmtWidth, height |-> FmtHeight,
                 device_fd |-> fd, buf_size |-> BufLength,
                 brightness_values |-> v, buffer |-> MapAddr]
        /\ frame_i = n
        /\ avg_brightness = <<-1, 1>>
        /\ error = 0
        /\ ret = 0
        /\ ret_error = NoError
        /\ reply = <<>>
        /\ mapped = TRUE
        /\ heap = 1
        /\ streaming = FALSE
        /\ looked_up = TRUE
        /\ sessions = 1
        /\ req_fd = fd
        /\ open_errno = 0
        /\ ops = CleanOps(n)
        /\ requests = 1

InitAvg ==
    /\ GammaIdle
    /\ \E n \in 1 .. AvgMaxLen : \E v \in SampleArrays(n) : FramesCaptured(n, v)

NextAvg == aggregate \/ capture_end
    \/ free_all_close \/ free_all_munmap \/ free_all_free \/ method_finish

SpecAvg == InitAvg /\ [][NextAvg]_vars

RECURSIVE SumOf(_)
SumOf(v) == IF v = <<>> THEN 0 ELSE v[1] + SumOf(Tail(v))

MinOf(v) == CHOOSE x \in {v[k] : k \in DOMAIN v} : \A k \in DOMAIN v : x <= v[k]
MaxOf(v) == CHOOSE x \in {v[k] : k \in DOMAIN v} : \A k \in DOMAIN v : x >= v[k]

\* the quotients a[1] / a[2] and b[1] / b[2] are the same number
SameQuotient(a, b) == a[2] # 0 /\ b[2] # 0 /\ a[1] * b[2] = b[1] * a[2]

\* the average was computed and capture_frames has not yet left
Averaged == cpc = "end" /\ st.quit = 0

\* C13: for n samples compute_avg_brightness gives
\* (sum - minimum - maximum) / (n - 2) / 255 when n >= 3 and the sum is not
\* 0, ties for the lowest or the highest included; sum / n / 255 when
\* n < 3; and exactly 0 when every sample is 0.  The samples 10, 90, 50, 60,
\* 40 give (50 + 60 + 40) / 3 / 255.
C13_TrimmedMean ==
    Averaged =>
        LET v == st.brightness_values
            n == num_captures
        IN  /\ Len(v) = n
            /\ (n >= 3 /\ SumOf(v) # 0) =>
                  SameQuotient(avg_brightness,
                               <<SumOf(v) - MinOf(v) - MaxOf(v), (n - 2) * 255>>)
            /\ n < 3 => SameQuotient(avg_brightness, <<SumOf(v), n * 255>>)
            /\ (\A k \in DOMAIN v : v[k] = 0) =>
                  avg_brightness[1] = 0 /\ avg_brightness[2] # 0
            /\ v = <<10, 90, 50, 60, 40>> =>
                  SameQuotient(avg_brightness, <<50 + 60 + 40, 3 * 255>>)

C13_Witness ==
    /\ Averaged
    /\ st.brightness_values = <<10, 90, 50, 60, 40>>
    /\ avg_brightness = <<150, 765>>

(***************************************************************************)
(* The colour temperature and the red and blue channels (part_000).        *)
(***************************************************************************)
\* the bounds of get_temp (part_000:73-74) and the tests of get_red, get_blue
TempMin == 1000
TempMax == 10000
TempMid == 6500
BlueNone == 1900
ChannelMax == 255
FitStep == 50

\* get_red above 6500 is clamp(a + b * x + c * log(x), 255) with
\* x = temp / 100 - 55, a = 351.97690566805693, b = 0.114206453784165,
\* c = -40.25366309332127, converted to unsigned short.  In IEEE doubles it
\* is 255 up to 6649 and never rises; RedSteps are the temperatures at which
\* it is one lower than at the temperature before, down to 203 at 10000
RedSteps ==
    <<6650, 6680, 6710, 6742, 6774, 6808, 6842, 6877, 6913, 6950, 6988, 7027,
      7067, 7109, 7151, 7195, 7240, 7286, 7333, 7382, 7432, 7483, 7536, 7591,
      7647, 7704, 7763, 7824, 7887, 7952, 8018, 8086, 8157, 8229, 8304, 8380,
      8459, 8541, 8625, 8711, 8800, 8892, 8987, 9084, 9185, 9289, 9396, 9507,
      9621, 9738, 9860, 9986>>

\* get_blue above 1900 and below 6500 is clamp(a + b * x + c * log(x), 255)
\* with x = temp / 100 - 10, a = -254.76935184120902,
\* b = 0.8274096064007395, c = 115.67994401066147, converted to unsigned
\* short.  In IEEE doubles it is BlueFirst at 1901 and never falls;
\* BlueSteps are the temperatures at which it is one higher than at the
\* temperature before, up to 254 at 6499
BlueFirst == 6
BlueSteps ==
    <<1902, 1909, 1916, 1924, 1931, 1939, 1947, 1954, 1962, 1970, 1978, 1986,
      1994, 2002, 2010, 2018, 2026, 2034, 2043, 2051, 2060, 2068, 2077, 2085,
      2094, 2103, 2112, 2121, 2130, 2139, 2148, 2157, 2166, 2176, 2185, 2195,
      2204, 2214, 2224, 2233, 2243, 2253, 2263, 2273, 2283, 2293, 2304, 2314,
      2324, 2335, 2345, 2356, 2367, 2378, 2388, 2399, 2410, 2422, 2433, 2444,
      2455, 2467, 2478, 2490, 2502, 2513, 2525, 2537, 2549, 2561, 2573, 2586,
      2598, 2610, 2623, 2636, 2648, 2661, 2674, 2687, 2700, 2713, 2726, 2740,
      2753, 2767, 2780, 2794, 2808, 2822, 2836, 2850, 2864, 2878, 2892, 2907,
      2921, 2936, 2951, 2966, 2981, 2996, 3011, 3026, 3041, 3057, 3072, 3088,
      3104, 3120, 3136, 3152, 3168, 3184, 3200, 3217, 3233, 3250, 3267, 3284,
      3301, 3318, 3335, 3353, 3370, 3388, 3405, 3423, 3441, 3459, 3477, 3495,
      3514, 3532, 3551, 3570, 3588, 3607, 3626, 3646, 3665, 3684, 3704, 3723,
      3743, 3763, 3783, 3803, 3823, 3844, 3864, 3885, 3906, 3926, 3947, 3969,
      3990, 4011, 4033, 4054, 4076, 4098, 4120, 4142, 4164, 4186, 4209, 4232,
      4254, 4277, 4300, 4323, 4347, 4370, 4394, 4417, 4441, 4465, 4489, 4513,
      4538, 4562, 4587, 4611, 4636, 4661, 4686, 4712, 4737, 4763, 4788, 4814,
      4840, 4866, 4893, 4919, 4946, 4972, 4999, 5026, 5053, 5080, 5108, 5135,
      5163, 5191, 5219, 5247, 5275, 5303, 5332, 5360, 5389, 5418, 5447, 5476,
      5506, 5535, 5565, 5595, 5625, 5655, 5685, 5716, 5746, 5777, 5808, 5839,
      5870, 5901, 5933, 5964, 5996, 6028, 6060, 6092, 6124, 6157, 6190, 6222,
      6255, 6288, 6322, 6355, 6389, 6422, 6456, 6490>>

\* the steps of the table steps made up to the temperature t
StepsUpTo(steps, t) == Cardinality({k \in DOMAIN steps : steps[k] <= t})

get_red(t) ==
    IF t <= TempMid THEN ChannelMax ELSE ChannelMax - StepsUpTo(RedSteps, t)

get_blue(t) ==
    IF t <= BlueNone THEN 0
    ELSE IF t < TempMid THEN BlueFirst + StepsUpTo(BlueSteps, t)
    ELSE ChannelMax

\* a bisection that moves the wrong bound
ratio_above_reversed(tB, tR, b, r) == tB * r < b * tR

\* (double) testB / testR > (double) B / R, the denominators being positive
\* and the four values at most 255
ratio_above(tB, tR, b, r) == tB * r > b * tR

\* a fit that takes the 50-step whatever channels it gives
fits_unchecked(t, r, b) == TRUE

\* get_red(tmp_temp) == R && get_blue(tmp_temp) == B
fits(t, r, b) == get_red(t) = r /\ get_blue(t) = b

\* part_000:90-100: the temperature t moved to the 50-step below or above
\* it if that step gives the channels r and b
fit_to_step(t, r, b) ==
    LET below == t - (t % FitStep)
        above == (t + FitStep) - (t % FitStep)
    IN  IF t % FitStep # 0
        THEN IF fits(below, r, b) THEN below
             ELSE IF fits(above, r, b) THEN above ELSE t
        ELSE t

\* get_temp is entered with the red and the blue of temp (part_000:71-75)
get_temp_enter ==
    /\ gpc = "call"
    /\ R' = get_red(temp)
    /\ B' = get_blue(temp)
    /\ min_temp' = IF get_blue(temp) = ChannelMax THEN TempMid ELSE TempMin
    /\ max_temp' = IF get_red(temp) = ChannelMax THEN TempMid ELSE TempMax
    /\ gpc' = "loop"
    /\ UNCHANGED <<temp, temperature, testR, testB, bisected>>
    /\ UNCHANGED <<dvars, cvars>>

\* one pass of the do-while body (part_000:79-86)
Bisect ==
    LET mid == (max_temp + min_temp) \div 2
    IN  /\ temperature' = mid
        /\ testR' = get_red(mid)
        /\ testB' = get_blue(mid)
        /\ IF ratio_above(get_blue(mid), get_red(mid), B, R)
           THEN max_temp' = mid /\ UNCHANGED min_temp
           ELSE min_temp' = mid /\ UNCHANGED max_temp

\* while (testR != R || testB != B), for the midpoint
Differs == get_red((max_temp + min_temp) \div 2) # R
           \/ get_blue((max_temp + min_temp) \div 2) # B

\* a pass of the loop after which the loop goes on
get_temp_again ==
    /\ gpc = "loop"
    /\ Differs
    /\ Bisect
    /\ UNCHANGED <<gpc, temp, R, B, bisected>>
    /\ UNCHANGED <<dvars, cvars>>

\* a pass of the loop after which the loop ends
get_temp_found ==
    /\ gpc = "loop"
    /\ ~Differs
    /\ Bisect
    /\ bisected' = (max_temp + min_temp) \div 2
    /\ gpc' = "fit"
    /\ UNCHANGED <<temp, R, B>>
    /\ UNCHANGED <<dvars, cvars>>

\* part_000:89-102: the fit to a 50-step, and the return
get_temp_return ==
    /\ gpc = "fit"
    /\ temperature' = fit_to_step(temperature, R, B)
    /\ gpc' = "done"
    /\ UNCHANGED <<temp, R, B, min_temp, max_temp, testR, testB, bisected>>
    /\ UNCHANGED <<dvars, cvars>>

\* get_temp is called with the channels of a temperature of the range
InitGamma ==
    /\ DispatcherServing
    /\ CaptureIdle
    /\ gpc = "call"
    /\ temp \in TempMin .. TempMax
    /\ R = 0
    /\ B = 0
    /\ min_temp = 0
    /\ max_temp = 0
    /\ temperature = 0
    /\ testR = 0
    /\ testB = 0
    /\ bisected = 0

NextGamma == get_temp_enter \/ get_temp_again \/ get_temp_found \/ get_temp_return

SpecGamma == InitGamma /\ [][NextGamma]_vars /\ WF_vars(NextGamma)

\* get_temp has returned; temperature is what it returned
GammaDone == gpc = "done"

\* the temperature u gives the red and the blue that temp gives
Reproduces(u) == get_red(u) = get_red(temp) /\ get_blue(u) = get_blue(temp)

\* the 50-steps next to the temperature t
StepBelow(t) == t - (t % FitStep)
StepAbove(t) == (t + FitStep) - (t % FitStep)

\* C14, as claimed: get_temp(get_red(t), get_blue(t)) is t, or, for a t that
\* is no multiple of 50 when no 50-step nearby gives the same channels, the
\* unfitted temperature of the bisection; and it gives the channels of t.
C14_RoundTripRecovers ==
    GammaDone =>
        /\ \/ temperature = temp
           \/ /\ temp % FitStep # 0
              /\ temperature = bisected
              /\ ~Reproduces(StepBelow(bisected))
              /\ ~Reproduces(StepAbove(bisected))
        /\ Reproduces(temperature)

\* C14, amended: get_temp(get_red(t), get_blue(t)) is a temperature of the
\* range that gives the red and the blue of t, in general another one than
\* t: the 50-step below the bisection's temperature if that gives the same
\* channels, else the 50-step above it if that does, else the bisection's
\* temperature itself.
C14_RoundTripReproducesChannels ==
    GammaDone =>
        /\ Reproduces(temperature)
        /\ Reproduces(bisected)
        /\ temperature \in TempMin .. TempMax
        /\ temperature =
              IF bisected % FitStep = 0 THEN bisected
              ELSE IF Reproduces(StepBelow(bisected)) THEN StepBelow(bisected)
              ELSE IF Reproduces(StepAbove(bisected)) THEN StepAbove(bisected)
              ELSE bisected

C14_Witness ==
    /\ GammaDone
    /\ temp = TempMin
    /\ bisected = 1687
    /\ temperature = 1650

\* C15: the loop of get_temp ends for the channels of every temperature of
\* the range: from the bounds chosen by B = 255 and R = 255 it comes to a
\* midpoint whose red and blue are R and B, and after a midpoint that is
\* not, the bounds are still at least 2 apart, so that the next midpoint is
\* a new one.
C15_BisectionEnds ==
    /\ <>GammaDone
    /\ [](gpc = "loop" /\ temperature = 0 =>
            /\ min_temp = IF B = ChannelMax THEN TempMid ELSE TempMin
            /\ max_temp = IF R = ChannelMax THEN TempMid ELSE TempMax)
    /\ [](gpc = "loop" /\ temperature # 0 => max_temp - min_temp >= 2)
    /\ [](gpc \in {"fit", "done"} =>
            /\ testR = R /\ testB = B
            /\ get_red(bisected) = R /\ get_blue(bisected) = B)

C15_Witness ==
    /\ gpc = "fit"
    /\ temp = TempMax
    /\ R = 203 /\ B = ChannelMax
    /\ min_temp = 9986 /\ max_temp = TempMax
    /\ bisected = 9986
    /\ testR = R /\ testB = B

(***************************************************************************)
(* Properties of the dispatcher's loop.                                    *)
(***************************************************************************)
\* this step calls poll
PollCalled == pc = "loop" /\ pc' = "scan"

\* this step invokes a handler
HandlerInvoked == Len(invoked') > Len(invoked) \/ (pc # "bus_cb" /\ pc' = "bus_cb")

\* C16: once quit is set, by a handler or by a failing poll, no handler is
\* invoked any more, not for the sources still ready in this wake-up and not
\* in a later one, and poll is not called again.
C16_NothingServedAfterQuit ==
    [][quit # 0 => ~HandlerInvoked /\ ~PollCalled]_vars

\* quit was set in the middle of a scan and a source poll reported is still
\* to come
C16_Witness ==
    /\ pc = "scan"
    /\ quit = SIGNAL_RCV
    /\ poll_r > 0
    /\ invoked = <<SIGNAL>>
    /\ \E k \in Sources : k >= scanned(poll_i) /\ HasPOLLIN(main_p[k].revents)

(***************************************************************************)
(* More properties of the capture request.                                 *)
(***************************************************************************)
\* the session's device handle is valid / its buffer is a mapping
DeviceValid == state /\ st.device_fd = req_fd /\ req_fd \in open_fds
BufferValid == state /\ st.buffer = MapAddr /\ mapped

\* C17, as claimed: between the start of capture_frames and its return the
\* session's buffer and device handle are both valid or both absent.
C17_BufferAndDeviceTogether == state => (BufferValid <=> DeviceValid)

\* C17, amended: the two are acquired and released one after the other: the
\* device handle is valid without a buffer from open_device to init_mmap
\* and on every path that fails in between; while the buffer is mapped the
\* handle is valid, until free_all, which closes the handle before it
\* unmaps the buffer; and neither is left when capture_frames is not
\* running.
C17_BufferOnlyWithDevice ==
    /\ (mapped /\ cpc # "free_all_munmap") => (BufferValid /\ DeviceValid)
    /\ (mapped /\ cpc = "free_all_munmap") => (BufferValid /\ ~DeviceValid)
    /\ (state /\ cpc \in {"init", "init_mmap"}) => (DeviceValid /\ ~BufferValid)
    /\ ~state => (~mapped /\ DeviceHandles = {})

C17_Witness ==
    /\ cpc = "end"
    /\ Failed("VIDIOC_DQBUF")
    /\ BufferValid
    /\ DeviceValid

(***************************************************************************)
(* The accounting of a wake-up.                                            *)
(***************************************************************************)
\* the sources poll counted in its return value: those with any event
Counted == {k \in Sources : main_p[k].revents # 0}

\* the sources whose handler ran in this wake-up
Served == {invoked[j] : j \in DOMAIN invoked}

\* poll gave a count, and the scan of this wake-up is under way or over
Scanning == pc = "scan" /\ poll_r >= 0

\* handlers run only for sources poll reported readable, once each, and r
\* counts down with them
C18_OnlyReadyOnce ==
    Scanning =>
        /\ \A k \in Served : HasPOLLIN(main_p[k].revents)
        /\ Cardinality(Served) = Len(invoked)
        /\ poll_r = Cardinality(Counted) - Len(invoked)
        /\ (Len(invoked) = Cardinality(Counted)) => ~ScanGoesOn

\* C18: in a wake-up a handler runs only for a source poll reported ready,
\* at most once per source; the scan stops when as many handlers ran as
\* poll counted; and when the scan is over without quit being set, every
\* source poll counted has been served.
C18_EveryCountedSourceServed ==
    /\ C18_OnlyReadyOnce
    /\ (Scanning /\ ~ScanGoesOn /\ quit = 0) => Counted \subseteq Served

(***************************************************************************)
(* bus_cb.                                                                 *)
(***************************************************************************)
\* this step is the return of bus_cb
BusCbReturns == pc = "bus_cb" /\ pc' # "bus_cb"

\* C19: bus_cb goes on calling sd_bus_process while it gives a positive
\* result; it returns when the result is 0, leaving quit alone, or when the
\* result is negative, with quit set to LEAVE_W_ERR; it never returns after
\* a positive result.
C19_BusDrained ==
    /\ [][BusCbReturns =>
            \/ bus_r' = 0 /\ quit' = quit
            \/ bus_r' < 0 /\ quit' = LEAVE_W_ERR]_vars
    /\ [][(pc = "bus_cb" /\ bus_r' > 0) => (pc' = "bus_cb" /\ quit' = quit)]_vars

C19_Witness ==
    /\ pc = "bus_cb"
    /\ bus_from = "main_poll"
    /\ bus_n = MaxBurst
    /\ bus_r = 1
    /\ quit = 0

(***************************************************************************)
(* The states of a capture session.                                        *)
(***************************************************************************)
\* the calls capture_frames makes before the first frame, in order
SetupOps ==
    <<"open", "VIDIOC_QUERYCAP", "VIDIOC_S_PRIORITY", "VIDIOC_S_FMT",
      "VIDIOC_REQBUFS", "VIDIOC_QUERYBUF", "mmap", "calloc", "VIDIOC_STREAMON">>

\* the request did all of them, in this order, and all succeeded, but
\* possibly the setting of the priority
SetupDone ==
    /\ Len(ops) >= Len(SetupOps)
    /\ \A j \in DOMAIN SetupOps :
          /\ ops[j].op = SetupOps[j]
          /\ ops[j].e = 0 \/ SetupOps[j] = "VIDIOC_S_PRIORITY"

\* where the session of the request stands, by what it holds: 0 Closed (no
\* device yet), 1 Opened, 2 Configured, 3 Mapped, 4 Streaming, 5 Captured
\* (the stream was stopped), 6 Closed (the device was closed again)
SessionPhase ==
    IF req_fd = -1 THEN 0
    ELSE IF req_fd \notin open_fds THEN 6
    ELSE IF streaming THEN 4
    ELSE IF Called("VIDIOC_STREAMOFF") THEN 5
    ELSE IF mapped THEN 3
    ELSE IF st.width # 0 THEN 2
    ELSE 1

\* this step is a call of capture_frame
FrameAttempted == frame_i' = frame_i + 1

QuitChanges == quit' # quit

\* C21: quit starts at 0 and changes value at most once: a step changes it
\* only from 0, to SIGNAL_RCV or to LEAVE_W_ERR, and what bus_cb or a failed
\* poll wrote is never replaced by what signal_cb writes, nor the reverse;
\* main() returns the status of the value written first.
C21_QuitChangesOnce ==
    /\ [][QuitChanges => (quit = 0 /\ quit' \in {SIGNAL_RCV, LEAVE_W_ERR})]_vars
    /\ [](quit \in {0, SIGNAL_RCV, LEAVE_W_ERR})
    /\ [](quit = LEAVE_W_ERR <=> err_cause # "none")
    /\ []((quit = SIGNAL_RCV) => (\A k \in DOMAIN invoked : invoked[k] = SIGNAL => k = Len(invoked)))
    /\ [](Exited => exit_status = exit_code(quit))

\* sd_bus_process failed while a signal was waiting on the signalfd: the
\* process ended with the error and the signal was never read
C21_Witness ==
    /\ Exited
    /\ quit = LEAVE_W_ERR
    /\ err_cause = "bus"
    /\ sig_pending
    /\ exit_status = EXIT_FAILURE

(***************************************************************************)
(* The stream-off calls of a capture request.                              *)
(***************************************************************************)
\* how many times the request has called stop_stream so far
StreamOffs == Cardinality({k \in DOMAIN ops : ops[k].op = "VIDIOC_STREAMOFF"})

\* the frame loop of the request is over and stop_stream was called after it
AfterFrameLoop == Succeeded("VIDIOC_STREAMON") /\ cpc \notin {"start_stream", "frames"}

\* stop_stream is called only after VIDIOC_STREAMON succeeded, once after
\* the frame loop, and once more in the frame whose VIDIOC_QBUF failed
C22_StreamOffOnlyAfterStreamOn ==
    /\ ~Succeeded("VIDIOC_STREAMON") => StreamOffs = 0
    /\ AfterFrameLoop => StreamOffs = (IF Failed("VIDIOC_QBUF") THEN 2 ELSE 1)
    /\ (cpc = "frames") => StreamOffs = (IF Failed("VIDIOC_QBUF") THEN 1 ELSE 0)

\* C22: within one capture request stop_stream is issued exactly once if
\* VIDIOC_STREAMON succeeded and never if it was not reached or failed, on
\* every path through the frame loop, a failed VIDIOC_QBUF or VIDIOC_DQBUF
\* included.
C22_StreamOffExactlyOnce ==
    /\ StreamOffs <= 1
    /\ ~Succeeded("VIDIOC_STREAMON") => StreamOffs = 0
    /\ AfterFrameLoop => StreamOffs = 1

(***************************************************************************)
(* The descriptors closed at shutdown.                                     *)
(***************************************************************************)
\* how many times fd was passed to close() or closed with the connection
TimesClosed(fd) == Cardinality({k \in DOMAIN close_log : close_log[k].fd = fd})

\* the descriptors set_pollfd registered: the entries of main_p it filled
\* with a descriptor it got (main_p is all zero before, and a creation that
\* failed left -1)
Registered == {main_p[k].fd : k \in {j \in Sources : main_p[j].fd > 0}}

\* the descriptors the daemon made: the connection's and the registered ones
Created == Registered \cup (IF bus THEN {bus_fd} ELSE {})

\* main() is past close_mainp
ShutDown == pc \in {"return", "exited"}

\* nothing but what the daemon made is closed, close_mainp closes nothing
\* when set_pollfd never ran, and after shutdown every registered descriptor
\* but the connection's was closed once; the connection's was closed once
\* with the connection and, if set_pollfd registered it, once more by
\* close_mainp
C23_OnlyBusClosedTwice ==
    /\ \A k \in DOMAIN close_log : close_log[k].fd \in Created
    /\ startup_failed =>
          \A k \in DOMAIN close_log : close_log[k].by # "close_mainp"
    /\ ShutDown =>
          /\ \A fd \in Registered \ {bus_fd} : TimesClosed(fd) = 1
          /\ bus => TimesClosed(bus_fd) = (IF startup_failed THEN 1 ELSE 2)
          /\ open_fds = StdFds

\* C23: during shutdown no descriptor is released twice and none that the
\* daemon did not create is closed: every descriptor set_pollfd registered
\* is closed exactly once across the release of the bus connection and
\* close_mainp, and close_mainp closes nothing when startup failed before
\* set_pollfd ran.
C23_EachDescriptorClosedOnce ==
    /\ \A fd \in Created : TimesClosed(fd) <= 1
    /\ \A k \in DOMAIN close_log : close_log[k].fd \in Created
    /\ ShutDown => \A fd \in Registered : TimesClosed(fd) = 1
    /\ startup_failed =>
          \A k \in DOMAIN close_log : close_log[k].by # "close_mainp"

====
